---- MODULE Spec2Model ----
(***************************************************************************)
(* Verification model of zptess-ng: the photometer calibration controller  *)
(* (lib/photometer/volatile.py, lib/photometer/persistent.py), the ring    *)
(* buffer (lib/ring.py, lib/controller/ring.py) and the batch controller   *)
(* (lib/controller/batch/batch.py).                                        *)
(*                                                                         *)
(* Units.  Frequencies are integers (Hz).  Magnitudes and zero points are  *)
(* integers in thousandths of a magnitude.                                  *)
(***************************************************************************)
EXTENDS Integers, Sequences, FiniteSets, TLC

\* ------------------------------------------------------------------------
\* Bounds of the model
\* ------------------------------------------------------------------------
MaxCapacity == 2
MaxRounds == 2
MaxExtra == 1
MaxAppends == 4
MaxRingCap == 3
MaxClock == 3
MaxSeqLen == 4
MaxStatLen == 3

\* ------------------------------------------------------------------------
\* Values
\* ------------------------------------------------------------------------
\* Python's None: an integer no frequency, spread, magnitude or zero point takes
NULL == -1
Roles == {"REF", "TEST"}
Freqs == {6, 12}
\* Frequencies of the stand-alone statistics: every mean of up to four is an integer
StatFreqs == {12, 24, 36}
FreqOffsets == {0, 6}
Centrals == {"MEDIAN", "MEAN", "MODE"}
CalCentrals == Centrals \ {"MODE"}
ZpOffsets == {30}
Items == {1, 2, 3}

Min(a, b) == IF a < b THEN a ELSE b

\* ------------------------------------------------------------------------
\* State
\* ------------------------------------------------------------------------
VARIABLES
    \* --- calibration controller (volatile.py / persistent.py)
    capacity,        \* self.capacity
    nrounds,         \* self.nrounds
    central,         \* self.central
    freq_offset,     \* self.phot_info[role]["freq_offset"]
    zp_offset,       \* self.zp_offset
    alive,           \* the adapter's readings() task of each role still runs
    produced,        \* number of messages each adapter has pushed so far
    queue,           \* self.photometer[role].queue
    ring,            \* self.ring[role] (contents of the deque)
    taken,           \* history: identity (role, seq) of each message got from queue.get(), per role
    fillPc,          \* position of fill_buffer(role)
    prodPc,          \* position of producer_task(role)
    is_calibrated,   \* self.is_calibrated
    calPc,           \* position of calibrate()
    calErr,          \* exception that ended calibrate(), or "none"
    returned,        \* value calibrate() returned, NULL while it has returned none
    statPc,          \* position of statistics()
    round_i,         \* number of loop iterations statistics() has completed
    zero_points,     \* local list zero_points of statistics()
    nullRounds,      \* history: rounds whose round_statistics gave a None
    round_rings,     \* history: what the rings held when each round took its statistics
    events,          \* history: CAL_START/ROUND/SUMMARY/CAL_END published
    readings,        \* history: number of READING events published per role
    db_queue,        \* self.db_queue
    dbPc,            \* position of db_writer()
    dequeued,        \* history: events db_writer() took from db_queue
    temp_round_info, \* self.temp_round_info
    commits,         \* history: number of committed transactions
    sample_t,        \* rows of samples_t, as (role, seq) of the stored samples
    samples_rounds_t, \* rows of samples_rounds_t, as (role, round seq, sample seq)
    photometer_t,    \* rows of photometer_t
    db_summary_t,    \* rows of summary_t stored by the commits of this calibration
    \* --- stand-alone ring buffer
    rb,              \* RingBuffer._buffer
    rbCap,           \* RingBuffer._buffer.maxlen
    rbHist,          \* history: every item appended
    \* --- batch controller
    batch_t,         \* rows of batch_t
    summary_sessions,\* session instants of the rows of summary_t
    clock,           \* datetime.now() in whole seconds
    lastOp,          \* last batch operation and its outcome
    summary_upd,     \* upd_flag of the summary_v row of each session
    orphans,         \* what the last orphan() returned
    best_seq,        \* argument of a call of best()
    best_result,     \* what that call returned, as a tagged Python value
    res_by,          \* which init() resolves a parameter: Reader, Controller, Calibrator
    res_param,       \* the parameter being resolved
    res_arg,         \* its explicit argument, NULL for None
    res_db,          \* its value parsed from the config table
    res_out,         \* the effective value, NULL until init() has run
    summary_t,       \* rows of summary_t: session, role, upd_flag, comment
    summary_t0,      \* summary_t as it was before write_zp()
    wz_zp,           \* zero point passed to write_zp()
    wz_dev,          \* how the TEST photometer answered the write
    wz_pc,           \* "idle", "written" after write_zp(), "not_updated" after not_updated()
    wz_result,       \* how write_zp() ended: returned value or exception
    ww_zp,           \* zero point passed to Writer.write_zp()
    ww_dev,          \* how the TEST photometer answered that write
    ww_result,       \* how Writer.write_zp() ended
    ww_events,       \* events published by the Writer
    ww_log,          \* what cli_update_zp logged: "none", "ok", "mismatch", "timeout", "error"
    \* --- one call of RingBuffer.statistics() (ring.py)
    sr_buffer,       \* self._buffer: the messages the ring holds, oldest first
    sr_central,      \* self._central
    sr_result,       \* what statistics() returned or raised; error "not_called" before
    \* --- export of the summaries (cli/tools.py)
    ex_view,         \* the row of summary_v to export: field name -> value
    ex_file,         \* the lines written to the CSV file, each a sequence
    \* --- concurrent calls of the batch Controller.open()
    co_pc,           \* per caller: "idle", "called", "checked", "done", "failed"
    co_begin         \* per caller: begin_tstamp taken at the call, NULL when idle

calVars == <<capacity, nrounds, central, freq_offset, zp_offset, alive, produced, queue,
             ring, taken, fillPc, prodPc, is_calibrated, calPc, calErr, returned, statPc,
             round_i, zero_points, nullRounds, round_rings, events, readings, db_queue, dbPc,
             dequeued, temp_round_info, commits, sample_t, samples_rounds_t,
                   photometer_t, db_summary_t>>
cfgVars == <<capacity, nrounds, central, freq_offset, zp_offset>>
statVars == <<statPc, round_i, zero_points, nullRounds, round_rings>>
dbVars == <<db_queue, dbPc, dequeued, temp_round_info, commits, sample_t, samples_rounds_t,
                   photometer_t, db_summary_t>>
ringVars == <<rb, rbCap, rbHist>>
batchVars == <<batch_t, summary_sessions, clock, lastOp, summary_upd, orphans>>
bestVars == <<best_seq, best_result>>
resolveVars == <<res_by, res_param, res_arg, res_db, res_out>>
writeVars == <<summary_t, summary_t0, wz_zp, wz_dev, wz_pc, wz_result>>
writerVars == <<ww_zp, ww_dev, ww_result, ww_events, ww_log>>
srVars == <<sr_buffer, sr_central, sr_result>>
exVars == <<ex_view, ex_file>>
coVars == <<co_pc, co_begin>>
utilVars == <<bestVars, resolveVars, writeVars, writerVars, srVars, exVars, coVars>>
nonBestVars ==
    <<calVars, ringVars, batchVars, resolveVars, writeVars, writerVars, srVars, exVars, coVars>>
nonResolveVars ==
    <<calVars, ringVars, batchVars, bestVars, writeVars, writerVars, srVars, exVars, coVars>>
nonWriteVars ==
    <<calVars, ringVars, batchVars, bestVars, resolveVars, writerVars, srVars, exVars, coVars>>
nonWriterVars ==
    <<calVars, ringVars, batchVars, bestVars, resolveVars, writeVars, srVars, exVars, coVars>>
nonSrVars ==
    <<calVars, ringVars, batchVars, bestVars, resolveVars, writeVars, writerVars, exVars, coVars>>
nonExVars ==
    <<calVars, ringVars, batchVars, bestVars, resolveVars, writeVars, writerVars, srVars, coVars>>
nonCoBatchVars ==
    <<calVars, ringVars, bestVars, resolveVars, writeVars, writerVars, srVars, exVars>>
nonCalVars == <<ringVars, batchVars, utilVars>>
nonRingVars == <<calVars, batchVars, utilVars>>
nonBatchVars == <<calVars, ringVars, utilVars>>
vars == <<calVars, ringVars, batchVars, utilVars>>

\* ------------------------------------------------------------------------
\* RingBuffer
\* ------------------------------------------------------------------------
\* Faulty variant of RingAppend: a full ring evicts the newest item instead of the oldest.
RingAppendEvictNewest(buf, cap, item) ==
    IF Len(buf) >= cap
    THEN Append(SubSeq(buf, 1, Len(buf) - 1), item)
    ELSE Append(buf, item)

\* Faulty variant of RingAppend: the deque has no maxlen, nothing is evicted.
RingAppendNoEvict(buf, cap, item) == Append(buf, item)

\* RingBuffer.append: collections.deque(maxlen=capacity).append
RingAppend(buf, cap, item) ==
    IF Len(buf) >= cap
    THEN Append(Tail(buf), item)
    ELSE Append(buf, item)

\* RingBuffer.__len__
RingLen(buf) == Len(buf)

\* The last n elements of a sequence.
LastN(s, n) == SubSeq(s, Len(s) - n + 1, Len(s))

\* Constructor of the stand-alone ring: RingBuffer(capacity=c)
RingInit ==
    /\ rbCap \in 1..MaxRingCap
    /\ rb = <<>>
    /\ rbHist = <<>>

\* One call of RingBuffer.append(item)
RbAppend ==
    /\ Len(rbHist) < MaxAppends
    /\ \E item \in Items :
        /\ rb' = RingAppend(rb, rbCap, item)
        /\ rbHist' = Append(rbHist, item)
    /\ UNCHANGED rbCap
    /\ UNCHANGED nonRingVars

RingFrozen ==
    /\ rb = <<>>
    /\ rbCap = 1
    /\ rbHist = <<>>

\* ------------------------------------------------------------------------
\* Statistics (Python's statistics module as the ring and best() use it)
\* ------------------------------------------------------------------------
Range(s) == {s[i] : i \in DOMAIN s}

RECURSIVE SumSeq(_)
SumSeq(s) == IF s = <<>> THEN 0 ELSE s[1] + SumSeq(Tail(s))

Count(s, x) == Cardinality({i \in DOMAIN s : s[i] = x})

\* statistics.median_low: the lower of the two middle elements of sorted data
median_low(s) ==
    LET k == (Len(s) + 1) \div 2
    IN CHOOSE x \in Range(s) :
          /\ Cardinality({i \in DOMAIN s : s[i] < x}) < k
          /\ k <= Cardinality({i \in DOMAIN s : s[i] <= x})

\* statistics.fmean (the model's frequencies make every mean an integer)
fmean(s) == SumSeq(s) \div Len(s)

\* statistics.multimode: the most frequent values, in order of first occurrence
multimode(s) ==
    LET maxc == CHOOSE c \in {Count(s, x) : x \in Range(s)} :
                    \A x \in Range(s) : Count(s, x) <= c
    IN {x \in Range(s) : Count(s, x) = maxc}

\* statistics.mode (Python >= 3.8): the first of the most frequent values
statistics_mode(s) ==
    LET i == CHOOSE j \in DOMAIN s :
                /\ s[j] \in multimode(s)
                /\ \A h \in DOMAIN s : s[h] \in multimode(s) => j <= h
    IN s[i]

\* RingBuffer.frequencies
frequencies(buf) == [i \in DOMAIN buf |-> buf[i].freq]

\* RingBuffer.__init__: the central function chosen by the central tag
central_func(tag, s) ==
    CASE tag = "MEDIAN" -> median_low(s)
      [] tag = "MEAN" -> fmean(s)
      [] tag = "MODE" -> statistics_mode(s)

\* RingBuffer.statistics.  The central function raises StatisticsError on no
\* data, statistics.stdev on fewer than two points.  The spread is kept as the
\* sum of squared deviations about the central value: stdev = sqrt(ss / (n-1)).
RingStatistics(buf, tag) ==
    IF Len(buf) < 2
    THEN [error |-> "StatisticsError", freq |-> NULL, stdev |-> NULL]
    ELSE LET f == frequencies(buf)
             c == central_func(tag, f)
         IN [error |-> "none", freq |-> c,
             stdev |-> SumSeq([i \in DOMAIN f |-> (f[i] - c) * (f[i] - c)])]

\* No call of RingBuffer.statistics() made on a stand-alone ring
SrFrozen ==
    /\ sr_buffer = <<>>
    /\ sr_central = "MEDIAN"
    /\ sr_result = [error |-> "not_called", freq |-> NULL, stdev |-> NULL]

\* A ring built by RingBuffer(capacity, central) and filled by append():
\* between 0 and MaxStatLen messages, of which only freq matters here
SrInit ==
    /\ sr_buffer \in UNION {[1..n -> {[freq |-> f] : f \in StatFreqs}] : n \in 0..MaxStatLen}
    /\ sr_central \in Centrals
    /\ sr_result = [error |-> "not_called", freq |-> NULL, stdev |-> NULL]

\* One call of RingBuffer.statistics()
SrStatistics ==
    /\ sr_result.error = "not_called"
    /\ sr_result' = RingStatistics(sr_buffer, sr_central)
    /\ UNCHANGED <<sr_buffer, sr_central>>
    /\ UNCHANGED nonSrVars

ZpFict == 20500
ZpAbs == 20370

\* 2.5 * log10(x) in thousandths of a magnitude, x = 1..12
Log10x2500 == <<0, 753, 1193, 1505, 1747, 1945, 2113, 2258, 2386, 2500, 2603, 2698>>

\* Controller.magnitude: math.log10 raises ValueError for an argument <= 0
magnitude(freq, offset) ==
    IF freq - offset <= 0 THEN NULL ELSE ZpFict - Log10x2500[freq - offset]

\* Controller.round_statistics: (freq, stdev, mag); what was not computed
\* before an exception stays None
round_statistics(buf, tag, offset) ==
    LET st == RingStatistics(buf, tag)
    IN IF st.error # "none"
       THEN [freq |-> NULL, stdev |-> NULL, mag |-> NULL]
       ELSE [freq |-> st.freq, stdev |-> st.stdev, mag |-> magnitude(st.freq, offset)]

\* util.mode: the unique mode, StatisticsError (NULL here) when there are several
mode(s) == IF Cardinality(multimode(s)) # 1 THEN NULL ELSE statistics_mode(s)

\* util.best: the unique mode, else median_low; the result is a bare number
best(s) ==
    IF mode(s) # NULL
    THEN [py |-> "float", value |-> mode(s)]
    ELSE [py |-> "float", value |-> median_low(s)]

\* No call of best() made
BestFrozen ==
    /\ best_seq = <<>>
    /\ best_result = [py |-> "none", value |-> NULL]

\* A non-empty sequence of values is about to be passed to best()
BestInit ==
    /\ best_seq \in UNION {[1..n -> Items] : n \in 1..MaxSeqLen}
    /\ best_result = [py |-> "none", value |-> NULL]

\* result = best(sequence)
BestCall ==
    /\ UNCHANGED nonBestVars
    /\ best_result.py = "none"
    /\ best_result' = best(best_seq)
    /\ UNCHANGED best_seq

\* The tuple assignment "method, value = best(seq)" of calibrate(): only a
\* two-element tuple can be unpacked, anything else raises TypeError
UnpackPair(obj) == IF obj.py = "tuple" THEN "ok" ELSE "TypeError"

\* round(zp, 2) on thousandths
Round2(z) == ((z + 5) \div 10) * 10

\* ------------------------------------------------------------------------
\* Parameter resolution of the init() methods
\* ------------------------------------------------------------------------
\* Parameters resolved by Reader.init (lib/controller/reader.py)
ReaderParams == {"model", "sensor", "old_proto", "endpoint"}

\* Parameters resolved by Controller.init (lib/photometer/volatile.py) and by
\* Calibrator.init (lib/controller.py)
CalibParams == {"buffer", "period", "central", "zp_fict", "rounds", "offset", "author"}

\* Explicit arguments: None, a falsy value (0, 0.0, False, ""), a truthy one
ArgValues == {NULL, 0, 1}

\* Parsed config values
DbValues == {1, 2}

\* "val_arg if val_arg is not None else parsed(val_db)"
ArgIfNotNone(arg, db) == IF arg # NULL THEN arg ELSE db

\* Python truth value: None, 0, 0.0, False and "" are false
Truthy(x) == x # NULL /\ x # 0

\* "arg or parsed(v)"
ArgOr(arg, db) == IF Truthy(arg) THEN arg ELSE db

ResolveFrozen ==
    /\ res_by = "none"
    /\ res_param = "none"
    /\ res_arg = NULL
    /\ res_db = NULL
    /\ res_out = NULL

\* A controller has been constructed with an argument, the config table holds
\* a value, init() has not run
ResolveInit ==
    /\ res_by \in {"Reader", "Controller", "Calibrator"}
    /\ res_param \in IF res_by = "Reader" THEN ReaderParams ELSE CalibParams
    /\ res_arg \in ArgValues
    /\ res_db \in DbValues
    /\ res_out = NULL

\* Reader.init
ReaderInit ==
    /\ UNCHANGED nonResolveVars
    /\ res_by = "Reader" /\ res_out = NULL
    /\ res_out' = ArgIfNotNone(res_arg, res_db)
    /\ UNCHANGED <<res_by, res_param, res_arg, res_db>>

\* Controller.init of lib/photometer/volatile.py
ControllerInit ==
    /\ UNCHANGED nonResolveVars
    /\ res_by = "Controller" /\ res_out = NULL
    /\ res_out' = ArgIfNotNone(res_arg, res_db)
    /\ UNCHANGED <<res_by, res_param, res_arg, res_db>>

\* Calibrator.init of lib/controller.py
CalibratorInit ==
    /\ UNCHANGED nonResolveVars
    /\ res_by = "Calibrator" /\ res_out = NULL
    /\ res_out' = ArgOr(res_arg, res_db)
    /\ UNCHANGED <<res_by, res_param, res_arg, res_db>>

\* ------------------------------------------------------------------------
\* Write-back of the zero point (lib/photometer/persistent.py, lib/controller/base.py)
\* ------------------------------------------------------------------------
\* meas_session of the controller, and the session of an earlier calibration
MeasSession == 2
OtherSession == 1

\* Zero points in thousandths
ZeroPoints == {20370, 20440}

\* Answers of the TEST photometer to save_zero_point() and get_info()
DevOutcomes == {"verified", "mismatch", "timeout", "transport"}

\* upd_flag values: None, False, True (booleans are stored as 0 and 1)
UpdFlags == {NULL, 0, 1}

SummaryRow(session, role, flag, comment) ==
    [session |-> session, role |-> role, upd_flag |-> flag, comment |-> comment]

\* Controller.write_zp of lib/controller/base.py: save_zero_point(), then the
\* zero point read back with get_info(); a timeout or a transport error of
\* the adapter is raised to the caller
BaseWriteZp(dev, zp) ==
    CASE dev = "verified" -> [exc |-> "none", stored |-> zp]
      [] dev = "mismatch" -> [exc |-> "none", stored |-> CHOOSE z \in ZeroPoints : z # zp]
      [] dev = "timeout" -> [exc |-> "TimeoutError", stored |-> NULL]
      [] dev = "transport" -> [exc |-> "OSError", stored |-> NULL]

WriteFrozen ==
    /\ summary_t = {}
    /\ summary_t0 = {}
    /\ wz_zp = NULL
    /\ wz_dev = "none"
    /\ wz_pc = "idle"
    /\ wz_result = [kind |-> "none", exc |-> "none", value |-> NULL]

\* summary_t holds the two rows of an earlier session and, or not, the two
\* rows of this session; write_zp() is about to be called
WriteInit ==
    /\ \E present \in BOOLEAN, fr \in UpdFlags, ft \in UpdFlags, fo \in {0, 1} :
          summary_t =
             {SummaryRow(OtherSession, "REF", 0, "None"),
              SummaryRow(OtherSession, "TEST", fo, "None")}
             \cup (IF present
                   THEN {SummaryRow(MeasSession, "REF", fr, "None"),
                         SummaryRow(MeasSession, "TEST", ft, "None")}
                   ELSE {})
    /\ summary_t0 = summary_t
    /\ wz_zp \in ZeroPoints
    /\ wz_dev = "none"
    /\ wz_pc = "idle"
    /\ wz_result = [kind |-> "none", exc |-> "none", value |-> NULL]

\* The update of write_zp(): for the summaries of meas_session,
\* upd_flag = False if role == REF else updated
SetUpdFlag(rows, updated) ==
    {IF r.session = MeasSession
     THEN [r EXCEPT !.upd_flag = IF r.role = "REF" THEN 0 ELSE IF updated THEN 1 ELSE 0]
     ELSE r : r \in rows}

\* Controller.write_zp of lib/photometer/persistent.py.  Any exception of the
\* base write_zp() is caught and clears `updated`; the summaries of the
\* session are updated and committed; then "return stored_zero_point", a
\* name that was never bound when the base write_zp() raised.
PersistentWriteZp ==
    /\ UNCHANGED nonWriteVars
    /\ wz_pc = "idle"
    /\ \E dev \in DevOutcomes :
          LET w == BaseWriteZp(dev, wz_zp)
              updated == w.exc = "none"
          IN /\ wz_dev' = dev
             /\ summary_t' = SetUpdFlag(summary_t, updated)
             /\ wz_result' = IF updated
                             THEN [kind |-> "returned", exc |-> "none", value |-> w.stored]
                             ELSE [kind |-> "raised", exc |-> "UnboundLocalError",
                                   value |-> NULL]
    /\ wz_pc' = "written"
    /\ UNCHANGED <<summary_t0, wz_zp>>

\* Controller.not_updated: every summary of the session gets upd_flag False
\* and the message as comment
NotUpdated ==
    /\ UNCHANGED nonWriteVars
    /\ wz_pc = "written"
    /\ \E msg \in {"ZP Write verification failed", "Failed contacting photometer"} :
          summary_t' = {IF r.session = MeasSession
                        THEN [r EXCEPT !.upd_flag = 0, !.comment = msg]
                        ELSE r : r \in summary_t}
    /\ wz_pc' = "not_updated"
    /\ UNCHANGED <<summary_t0, wz_zp, wz_dev, wz_result>>

\* Writer.write_zp of lib/controller/writer.py: save_zero_point(), get_info(),
\* return of the value read back.  It publishes nothing.
WriterWriteZp(dev, zp) ==
    LET w == BaseWriteZp(dev, zp)
    IN [exc |-> w.exc, stored |-> w.stored, published |-> <<>>]

WriterFrozen ==
    /\ ww_zp = NULL
    /\ ww_dev = "none"
    /\ ww_result = [kind |-> "none", exc |-> "none", value |-> NULL]
    /\ ww_events = <<>>
    /\ ww_log = "none"

\* cli_update_zp is about to run with the zero point of the command line
WriterInit ==
    /\ ww_zp \in ZeroPoints
    /\ ww_dev = "none"
    /\ ww_result = [kind |-> "none", exc |-> "none", value |-> NULL]
    /\ ww_events = <<>>
    /\ ww_log = "none"

\* cli_update_zp, lines 110-125: the call of Writer.write_zp() and the log
\* entry chosen from its exception or from the comparison of the value
\* read back with the one requested
CliUpdateZp ==
    /\ UNCHANGED nonWriterVars
    /\ ww_log = "none"
    /\ \E dev \in DevOutcomes :
          LET w == WriterWriteZp(dev, ww_zp)
          IN /\ ww_dev' = dev
             /\ ww_events' = ww_events \o w.published
             /\ ww_result' = IF w.exc = "none"
                             THEN [kind |-> "returned", exc |-> "none", value |-> w.stored]
                             ELSE [kind |-> "raised", exc |-> w.exc, value |-> NULL]
             /\ ww_log' = IF w.exc = "TimeoutError" THEN "timeout"
                          ELSE IF w.exc # "none" THEN "error"
                          ELSE IF ww_zp # w.stored THEN "mismatch"
                          ELSE "ok"
    /\ UNCHANGED ww_zp

\* Nothing but the calibration, the ring and the batches
\* SUMMARY_EXPORT_HEADERS: the header line of the summary CSV file
SUMMARY_EXPORT_HEADERS ==
    <<"model", "name", "mac", "firmware", "sensor", "session", "calibration",
      "calversion", "ref_mag", "ref_freq", "test_mag", "test_freq", "mag_diff",
      "raw_zero_point", "offset", "zero_point", "prev_zp", "filter", "plug", "box",
      "collector", "author", "comment">>

\* query_summaries: the columns of summary_v, in the order of the select()
SummarySelect ==
    <<"model", "name", "mac", "firmware", "sensor", "session", "calibration",
      "calversion", "ref_mag", "ref_freq", "test_freq", "test_mag", "mag_diff",
      "raw_zero_point", "zp_offset", "zero_point", "prev_zp", "filter", "plug", "box",
      "collector", "author", "comment">>

\* The numeric columns whose values vary here; the others hold 0
NumericFields ==
    {"ref_mag", "ref_freq", "test_mag", "test_freq", "mag_diff", "raw_zero_point",
     "zp_offset"}
ExValues == {1, 2}

\* No export made
ExFrozen ==
    /\ ex_view = [x \in Range(SummarySelect) |-> 0]
    /\ ex_file = <<>>

\* One row of summary_v that the query selects, nothing written yet
ExInit ==
    /\ ex_view \in {[x \in Range(SummarySelect) |-> IF x \in NumericFields THEN v[x] ELSE 0] :
                       v \in [NumericFields -> ExValues]}
    /\ ex_file = <<>>

\* export_summaries: the header line, then one line per row of the query,
\* the values in the order of the select()
ExportSummaries ==
    /\ ex_file = <<>>
    /\ ex_file' = <<SUMMARY_EXPORT_HEADERS,
                    [k \in DOMAIN SummarySelect |-> ex_view[SummarySelect[k]]]>>
    /\ UNCHANGED ex_view
    /\ UNCHANGED nonExVars

\* The callers of the batch Controller.open() that run concurrently
Callers == {"c1", "c2"}

\* No call of open() under way
CoFrozen ==
    /\ co_pc = [c \in Callers |-> "idle"]
    /\ co_begin = [c \in Callers |-> NULL]

UtilFrozen == BestFrozen /\ ResolveFrozen /\ WriteFrozen /\ WriterFrozen /\ SrFrozen /\ ExFrozen /\ CoFrozen

\* The tuple assignment "method, value = best(seq)": PersistentCalibrator over the volatile Controller
\* ------------------------------------------------------------------------
Msg(role, seq, freq) == [role |-> role, seq |-> seq, freq |-> freq]

\* What identifies a message: the adapter it came from and its sequence number
Ident(m) == <<m.role, m.seq>>
Idents(msgs) == [j \in DOMAIN msgs |-> Ident(msgs[j])]

\* Controller.init(): the parameters it resolves from arguments and config
CalParams ==
    /\ capacity \in 1..MaxCapacity
    /\ nrounds \in 1..MaxRounds
    /\ central \in CalCentrals
    /\ freq_offset \in {f \in [Roles -> FreqOffsets] : \E r \in Roles : f[r] = 0}
    /\ zp_offset \in ZpOffsets

\* State after Controller.init(): empty rings, the adapters' readings() tasks
\* and the db_writer() task created, none of them run yet.
CalStart ==
    /\ alive = [r \in Roles |-> TRUE]
    /\ produced = [r \in Roles |-> 0]
    /\ queue = [r \in Roles |-> <<>>]
    /\ ring = [r \in Roles |-> <<>>]
    /\ taken = [r \in Roles |-> <<>>]
    /\ fillPc = [r \in Roles |-> "none"]
    /\ prodPc = [r \in Roles |-> "none"]
    /\ is_calibrated = FALSE
    /\ calPc = "idle"
    /\ calErr = "none"
    /\ returned = NULL
    /\ statPc = "none"
    /\ round_i = 0
    /\ zero_points = <<>>
    /\ nullRounds = {}
    /\ round_rings = <<>>
    /\ events = <<>>
    /\ readings = [r \in Roles |-> 0]
    /\ db_queue = <<>>
    /\ dbPc = "start"
    /\ dequeued = <<>>
    /\ temp_round_info = <<>>
    /\ commits = 0
    /\ sample_t = {}
    /\ samples_rounds_t = {}
    /\ photometer_t = {}
    /\ db_summary_t = {}

CalInit == CalParams /\ CalStart

\* The calibration controller at rest, for the specifications of the other parts
CalFrozen ==
    /\ capacity = 1
    /\ nrounds = 1
    /\ central = "MEDIAN"
    /\ freq_offset = [r \in Roles |-> 0]
    /\ zp_offset = 0
    /\ CalStart

\* A cancelled task: one that has not finished ends cancelled
Stop(pc) == IF pc \in {"start", "waiting", "woken", "sleeping"} THEN "cancelled" ELSE pc

\* asyncio.Queue.put_nowait on db_queue: a db_writer() blocked in get() is woken
DbPut(q, pc, msg) ==
    [queue |-> Append(q, msg), pc |-> IF pc = "waiting" THEN "woken" ELSE pc]

\* The adapter of a role pushes one message into its queue; a consumer blocked
\* in queue.get() is woken (it runs later, at its own step).  Once calibrate()
\* is cancelled nothing reads the queues and the adapters are followed no further.
AdapterPut(r) ==
    /\ UNCHANGED nonCalVars
    /\ alive[r]
    /\ produced[r] < capacity + MaxExtra
    /\ calPc # "cancelled"
    /\ \E f \in Freqs :
         queue' = [queue EXCEPT ![r] = Append(@, Msg(r, produced[r] + 1, f))]
    /\ produced' = [produced EXCEPT ![r] = @ + 1]
    /\ fillPc' = [fillPc EXCEPT ![r] = IF @ = "waiting" THEN "woken" ELSE @]
    /\ prodPc' = [prodPc EXCEPT ![r] = IF @ = "waiting" THEN "woken" ELSE @]
    /\ UNCHANGED <<cfgVars, statVars, dbVars, alive, ring, taken, is_calibrated,
                   calPc, calErr, returned, events, readings>>

\* The adapter's readings() task dies (Timeout, Transport error).  Nobody
\* awaits that task: its exception stays in the task, the queue just stops.
\* The model follows one adapter failure per calibration.
AdapterFail(r) ==
    /\ UNCHANGED nonCalVars
    /\ \A x \in Roles : alive[x]
    /\ calPc \in {"prefill", "rounds"}
    /\ alive' = [alive EXCEPT ![r] = FALSE]
    /\ UNCHANGED <<cfgVars, statVars, dbVars, produced, queue, ring, taken,
                   fillPc, prodPc, is_calibrated, calPc, calErr, returned, events, readings>>

\* PersistentCalibrator.calibrate() up to its first suspension: on_calib_start
\* publishes CAL_START and enqueues it, then gather() starts both fill_buffer.
CalibrateStart ==
    /\ UNCHANGED nonCalVars
    /\ calPc = "idle"
    /\ calPc' = "prefill"
    /\ events' = Append(events, [type |-> "CAL_START"])
    /\ LET put == DbPut(db_queue, dbPc, [type |-> "CAL_START"])
       IN /\ db_queue' = put.queue
          /\ dbPc' = put.pc
    /\ fillPc' = [r \in Roles |-> "start"]
    /\ UNCHANGED <<cfgVars, statVars, alive, produced, queue, ring, taken, prodPc,
                   is_calibrated, calErr, returned, readings, dequeued, temp_round_info,
                   commits, sample_t, samples_rounds_t,
                   photometer_t, db_summary_t>>

\* Appending a run of messages to a ring, one RingBuffer.append each
RECURSIVE AppendAll(_, _, _)
AppendAll(buf, cap, msgs) ==
    IF msgs = <<>> THEN buf
    ELSE AppendAll(RingAppend(buf, cap, msgs[1]), cap, Tail(msgs))

\* Faulty variant of Consume: the message goes to the other role's ring.
ConsumeCrossed(r, k) ==
    LET msgs == SubSeq(queue[r], 1, k)
        o == CHOOSE x \in Roles : x # r
    IN /\ queue' = [queue EXCEPT ![r] = SubSeq(@, k + 1, Len(@))]
       /\ taken' = [taken EXCEPT ![r] = @ \o Idents(msgs)]
       /\ ring' = [ring EXCEPT ![o] = AppendAll(@, capacity, msgs)]

\* k times "msg = await self.photometer[role].queue.get(); self.ring[role].append(msg)".
\* queue.get() suspends only on an empty queue, so a consumer takes what is
\* queued in one go.
Consume(r, k) ==
    LET msgs == SubSeq(queue[r], 1, k)
    IN /\ queue' = [queue EXCEPT ![r] = SubSeq(@, k + 1, Len(@))]
       /\ taken' = [taken EXCEPT ![r] = @ \o Idents(msgs)]
       /\ ring' = [ring EXCEPT ![r] = AppendAll(@, capacity, msgs)]

\* fill_buffer(role) runs until it must wait for the adapter or the ring is full;
\* every append publishes a READING event.
FillStep(r) ==
    /\ UNCHANGED nonCalVars
    /\ calPc = "prefill"
    /\ fillPc[r] \in {"start", "woken"}
    /\ LET room == capacity - RingLen(ring[r])
           k == IF room <= 0 THEN 0 ELSE Min(Len(queue[r]), room)
       IN /\ Consume(r, k)
          /\ readings' = [readings EXCEPT ![r] = @ + k]
          /\ fillPc' = [fillPc EXCEPT ![r] = IF k >= room THEN "done" ELSE "waiting"]
    /\ UNCHANGED <<cfgVars, statVars, dbVars, alive, produced, prodPc,
                   is_calibrated, calPc, calErr, returned, events>>

\* Faulty variant of PrefillDone: calibrate() goes on as soon as one fill_buffer is done.
PrefillDoneAny ==
    /\ UNCHANGED nonCalVars
    /\ calPc = "prefill"
    /\ \E r \in Roles : fillPc[r] = "done"
    /\ fillPc' = [r \in Roles |-> Stop(fillPc[r])]
    /\ prodPc' = [r \in Roles |-> "start"]
    /\ is_calibrated' = FALSE
    /\ statPc' = "start"
    /\ calPc' = "rounds"
    /\ UNCHANGED <<cfgVars, dbVars, alive, produced, queue, ring, taken,
                   calErr, returned, round_i, zero_points, nullRounds, round_rings, events, readings>>

\* calibrate() resumes when both fill_buffer are done: it creates the two
\* producer tasks, clears is_calibrated and awaits gather(statistics(), producers).
PrefillDone ==
    /\ UNCHANGED nonCalVars
    /\ calPc = "prefill"
    /\ \A r \in Roles : fillPc[r] = "done"
    /\ prodPc' = [r \in Roles |-> "start"]
    /\ is_calibrated' = FALSE
    /\ statPc' = "start"
    /\ calPc' = "rounds"
    /\ UNCHANGED <<cfgVars, dbVars, alive, produced, queue, ring, taken, fillPc,
                   calErr, returned, round_i, zero_points, nullRounds, round_rings, events, readings>>

\* Faulty variant of ProducerStep: the producer publishes a READING event for
\* each message it appends, as fill_buffer does.
ProducerStepReading(r) ==
    /\ UNCHANGED nonCalVars
    /\ prodPc[r] \in {"start", "woken"}
    /\ (r = "TEST" /\ prodPc[r] = "start") => prodPc["REF"] # "start"
    /\ LET first == IF prodPc[r] = "woken" THEN 1 ELSE 0
           k == IF is_calibrated THEN first ELSE Len(queue[r])
       IN /\ Consume(r, k)
          /\ readings' = [readings EXCEPT ![r] = @ + k]
    /\ prodPc' = [prodPc EXCEPT ![r] = IF is_calibrated THEN "done" ELSE "waiting"]
    /\ UNCHANGED <<cfgVars, statVars, dbVars, alive, produced, fillPc,
                   is_calibrated, calPc, calErr, returned, events>>

\* producer_task(role) runs until it must wait for the adapter or sees
\* is_calibrated.  A producer woken from queue.get() first appends the message
\* it waited for, whatever the flag has become.  The tasks start in the order
\* of their creation: REF, TEST, then statistics().
ProducerStep(r) ==
    /\ UNCHANGED nonCalVars
    /\ prodPc[r] \in {"start", "woken"}
    /\ (r = "TEST" /\ prodPc[r] = "start") => prodPc["REF"] # "start"
    /\ LET first == IF prodPc[r] = "woken" THEN 1 ELSE 0
           k == IF is_calibrated THEN first ELSE Len(queue[r])
       IN Consume(r, k)
    /\ prodPc' = [prodPc EXCEPT ![r] = IF is_calibrated THEN "done" ELSE "waiting"]
    /\ UNCHANGED <<cfgVars, statVars, dbVars, alive, produced, fillPc,
                   is_calibrated, calPc, calErr, returned, events, readings>>

\* Faulty variant of RoundInfo: `current` is the loop index, counted from 0.
RoundInfoZeroBased(i, st) ==
    [type |-> "ROUND", current |-> i - 1,
     mag_diff |-> st["REF"].mag - st["TEST"].mag,
     zero_point |-> ZpAbs + (st["REF"].mag - st["TEST"].mag),
     stats |-> st]

\* The ROUND event of round i, as on_round publishes it
RoundInfo(i, st) ==
    [type |-> "ROUND", current |-> i,
     mag_diff |-> st["REF"].mag - st["TEST"].mag,
     zero_point |-> ZpAbs + (st["REF"].mag - st["TEST"].mag),
     stats |-> st]

\* Faulty variant of StatisticsStep: statistics() suspends between the
\* statistics of the round and on_round, and a producer appends in between.
StatisticsStepInterleaved ==
    /\ UNCHANGED nonCalVars
    /\ calPc = "rounds"
    /\ statPc \in {"start", "sleeping"}
    /\ statPc = "start" => \A r \in Roles : prodPc[r] # "start"
    /\ LET i == round_i + 1
           st == [r \in Roles |-> round_statistics(ring[r], central, freq_offset[r])]
           isNull == \E r \in Roles : st[r].freq = NULL \/ st[r].mag = NULL
           raises == \E r \in Roles : st[r].mag = NULL
       IN /\ \E p \in Roles : Consume(p, IF queue[p] = <<>> THEN 0 ELSE 1)
          /\ round_rings' = Append(round_rings, [r \in Roles |-> Idents(ring'[r])])
          /\ nullRounds' = IF isNull THEN nullRounds \cup {i} ELSE nullRounds
          /\ IF raises
             THEN /\ statPc' = "raised"
                  /\ UNCHANGED <<round_i, zero_points, events, db_queue, dbPc,
                                 is_calibrated>>
             ELSE LET info == RoundInfo(i, st)
                      zps == Append(zero_points, info.zero_point)
                      put == DbPut(db_queue, dbPc, info)
                  IN /\ round_i' = i
                     /\ events' = Append(events, info)
                     /\ db_queue' = put.queue
                     /\ dbPc' = put.pc
                     /\ IF i # nrounds
                        THEN /\ statPc' = "sleeping"
                             /\ zero_points' = zps
                             /\ UNCHANGED is_calibrated
                        ELSE /\ statPc' = "returned"
                             /\ zero_points' = [j \in DOMAIN zps |-> Round2(zps[j])]
                             /\ is_calibrated' = TRUE
    /\ UNCHANGED <<cfgVars, alive, produced, fillPc, prodPc,
                   calPc, calErr, returned, readings, dequeued, temp_round_info, commits, sample_t, samples_rounds_t,
                   photometer_t, db_summary_t>>

\* statistics() from where it stands to its next suspension: one iteration of
\* the loop, then asyncio.sleep(period), or the end of the function after the
\* last round.  Subtracting the magnitudes raises TypeError when one is None.
StatisticsStep ==
    /\ UNCHANGED nonCalVars
    /\ calPc = "rounds"
    /\ statPc \in {"start", "sleeping"}
    /\ statPc = "start" => \A r \in Roles : prodPc[r] # "start"
    /\ LET i == round_i + 1
           st == [r \in Roles |-> round_statistics(ring[r], central, freq_offset[r])]
           isNull == \E r \in Roles : st[r].freq = NULL \/ st[r].mag = NULL
           raises == \E r \in Roles : st[r].mag = NULL
       IN /\ round_rings' = Append(round_rings, [r \in Roles |-> Idents(ring[r])])
          /\ nullRounds' = IF isNull THEN nullRounds \cup {i} ELSE nullRounds
          /\ IF raises
             THEN /\ statPc' = "raised"
                  /\ UNCHANGED <<round_i, zero_points, events, db_queue, dbPc,
                                 is_calibrated>>
             ELSE LET info == RoundInfo(i, st)
                      zps == Append(zero_points, info.zero_point)
                      put == DbPut(db_queue, dbPc, info)
                  IN /\ round_i' = i
                     /\ events' = Append(events, info)
                     /\ db_queue' = put.queue
                     /\ dbPc' = put.pc
                     /\ IF i # nrounds
                        THEN /\ statPc' = "sleeping"
                             /\ zero_points' = zps
                             /\ UNCHANGED is_calibrated
                        ELSE /\ statPc' = "returned"
                             /\ zero_points' = [j \in DOMAIN zps |-> Round2(zps[j])]
                             /\ is_calibrated' = TRUE
    /\ UNCHANGED <<cfgVars, alive, produced, queue, ring, taken, fillPc, prodPc,
                   calPc, calErr, returned, readings, dequeued, temp_round_info, commits, sample_t, samples_rounds_t,
                   photometer_t, db_summary_t>>

\* The ROUND events published so far, in order
RoundEvents == SelectSeq(events, LAMBDA e : e.type = "ROUND")

\* Lines 200-223 of calibrate(): the SUMMARY event built from best() results
\* that were unpacked as (method, value) pairs
SummaryInfo(bzp, bref, btest) ==
    [type |-> "SUMMARY",
     zero_point_seq |-> zero_points,
     ref_freq_seq |-> [j \in DOMAIN RoundEvents |-> RoundEvents[j].stats["REF"].freq],
     test_freq_seq |-> [j \in DOMAIN RoundEvents |-> RoundEvents[j].stats["TEST"].freq],
     best_ref_freq |-> bref[2],
     best_ref_freq_method |-> bref[1],
     best_ref_mag |-> ZpFict - Log10x2500[bref[2]],
     best_test_freq |-> btest[2],
     best_test_freq_method |-> btest[1],
     best_test_mag |-> ZpFict - Log10x2500[btest[2]],
     mag_diff |-> Log10x2500[btest[2]] - Log10x2500[bref[2]],
     best_zero_point |-> bzp[2],
     best_zero_point_method |-> bzp[1],
     final_zero_point |-> bzp[2] + zp_offset]

\* final_zero_point of calibrate(), line 203, as the SUMMARY event carries it
FinalZeroPoint ==
    LET e == CHOOSE x \in Range(events) : x.type = "SUMMARY"
    IN e.final_zero_point

\* calibrate() resumes from a gather().
\*  - gather(statistics(), producers) raised: the exception of statistics()
\*    leaves calibrate(); gather() does not cancel the producers.
\*  - gather(statistics(), producers) returned: best() is called on the three
\*    sequences and its result unpacked; on success SUMMARY and CAL_END are
\*    published and enqueued and the persistent calibrate() awaits db_task.
\*  - gather(db_task) is over: calibrate() returns the zero point or raises
\*    the exception of db_writer().
CalibrateResume ==
    /\ UNCHANGED nonCalVars
    /\ IF calPc = "rounds"
       THEN statPc = "raised"
              \/ (statPc = "returned" /\ \A r \in Roles : prodPc[r] = "done")
       ELSE calPc = "wait_db" /\ dbPc \in {"done", "failed"}
    /\ IF calPc = "wait_db"
       THEN /\ calPc' = IF dbPc = "done" THEN "done" ELSE "failed"
            /\ calErr' = IF dbPc = "done" THEN "none" ELSE "PersistenceError"
            /\ returned' = IF dbPc = "done" THEN FinalZeroPoint ELSE NULL
            /\ UNCHANGED <<events, db_queue, dbPc>>
       ELSE IF statPc = "raised"
       THEN /\ calPc' = "failed"
            /\ calErr' = "TypeError_None_operand"
            /\ UNCHANGED returned
            /\ UNCHANGED <<events, db_queue, dbPc>>
       ELSE LET bzp == best(zero_points)
                bref == best(SummaryInfo(<<>>, <<>>, <<>>).ref_freq_seq)
                btest == best(SummaryInfo(<<>>, <<>>, <<>>).test_freq_seq)
            IN IF UnpackPair(bzp) = "TypeError"
               THEN /\ calPc' = "failed"
                    /\ calErr' = "TypeError_unpack"
                    /\ UNCHANGED returned
                    /\ UNCHANGED <<events, db_queue, dbPc>>
               ELSE LET info == SummaryInfo(bzp.items, bref.items, btest.items)
                        put1 == DbPut(db_queue, dbPc, info)
                        put2 == DbPut(put1.queue, put1.pc, [type |-> "CAL_END"])
                    IN /\ events' = events \o <<info, [type |-> "CAL_END"]>>
                       /\ db_queue' = put2.queue
                       /\ dbPc' = put2.pc
                       /\ calPc' = "wait_db"
                       /\ calErr' = "none"
                       /\ UNCHANGED returned
    /\ UNCHANGED <<cfgVars, statVars, alive, produced, queue, ring, taken, fillPc,
                   prodPc, is_calibrated, readings, dequeued, temp_round_info,
                   commits, sample_t, samples_rounds_t,
                   photometer_t, db_summary_t>>

\* The task running calibrate() is cancelled while it awaits a gather():
\* gather() cancels the children it waits for (the fill_buffer coroutines, or
\* statistics() and the producers, or db_task) and calibrate() ends cancelled.
\* db_task is a child only of the last gather().
Cancel ==
    /\ UNCHANGED nonCalVars
    /\ calPc \in {"prefill", "rounds", "wait_db"}
    /\ calPc' = "cancelled"
    /\ fillPc' = [r \in Roles |-> Stop(fillPc[r])]
    /\ prodPc' = [r \in Roles |-> Stop(prodPc[r])]
    /\ statPc' = Stop(statPc)
    /\ dbPc' = IF calPc = "wait_db" THEN Stop(dbPc) ELSE dbPc
    /\ UNCHANGED <<cfgVars, alive, produced, queue, ring, taken, is_calibrated,
                   calErr, returned, round_i, zero_points, nullRounds, round_rings, events, readings,
                   db_queue, dequeued, temp_round_info, commits, sample_t, samples_rounds_t,
                   photometer_t, db_summary_t>>

\* Index of the first CAL_END in a sequence of messages, 0 when there is none
FirstCalEnd(q) ==
    IF \E j \in DOMAIN q : q[j].type = "CAL_END"
    THEN CHOOSE j \in DOMAIN q :
            /\ q[j].type = "CAL_END"
            /\ \A h \in DOMAIN q : q[h].type = "CAL_END" => j <= h
    ELSE 0

\* self.phot_info[role], as the adapter's get_info() gave it; zp in thousandths
phot_info(role) ==
    IF role = "REF"
    THEN [name |-> "stars3", mac |-> "AA:01", model |-> "TESSW", sensor |-> "TSL237",
          firmware |-> "1.0", freq_offset |-> freq_offset[role], zp |-> ZpAbs]
    ELSE [name |-> "stars1", mac |-> "AA:02", model |-> "TESSW", sensor |-> "TSL237",
          firmware |-> "1.0", freq_offset |-> freq_offset[role], zp |-> 20440]

\* One turn of the loop of save_photometers: the row with this (name, mac) is
\* looked up; when there is none a row is added from the photometer info,
\* with freq_offset 0.0 when it is null or zero
UpsertPhotometer(rows, info) ==
    IF \E p \in rows : p.mac = info.mac /\ p.name = info.name
    THEN rows
    ELSE rows \cup {[name |-> info.name, mac |-> info.mac, model |-> info.model,
                     sensor |-> info.sensor, firmware |-> info.firmware,
                     freq_offset |-> IF Truthy(info.freq_offset)
                                     THEN info.freq_offset ELSE 0]}

\* save_photometers: REF, then TEST, in the same database session
save_photometers(rows) ==
    UpsertPhotometer(UpsertPhotometer(rows, phot_info("REF")), phot_info("TEST"))

\* save_summaries: one Summary row per role.  It reads the keys best_freq,
\* best_freq_method and best_mag of temp_summary, which the SUMMARY message
\* of calibrate() does not carry: KeyError.
save_summaries(summary) ==
    IF {"best_freq", "best_freq_method", "best_mag"} \subseteq DOMAIN summary
    THEN [raised |-> "none",
          rows |-> {[session |-> MeasSession, role |-> role,
                     zp_offset |-> IF role = "TEST" THEN zp_offset ELSE 0,
                     prev_zp |-> IF role = "TEST" THEN phot_info(role).zp ELSE ZpAbs,
                     zero_point |-> IF role = "TEST" THEN summary.best_zero_point ELSE ZpAbs,
                     zero_point_method |-> IF role = "TEST"
                                           THEN summary.best_zero_point_method ELSE "None",
                     freq |-> summary.best_freq[role],
                     freq_method |-> summary.best_freq_method[role],
                     mag |-> summary.best_mag[role],
                     nrounds |-> nrounds,
                     photometer |-> <<phot_info(role).name, phot_info(role).mac>>]
                    : role \in Roles}]
    ELSE [raised |-> "KeyError", rows |-> {}]

\* do_persist(): save_photometers, then save_summaries, which raises KeyError;
\* session.begin() rolls the transaction back, photometer rows included, and
\* the exception leaves db_writer().  With the keys save_summaries reads,
\* save_rounds reads self.accum_samples, an attribute nothing assigns
\* (AttributeError).  Nothing is committed.
do_persist(summary) ==
    LET phot == save_photometers(photometer_t)
        summ == save_summaries(summary)
        rollback == [committed |-> 0, samples |-> {}, links |-> {},
                     photometers |-> photometer_t, summaries |-> {}]
    IN IF summ.raised # "none"
       THEN [raised |-> summ.raised] @@ rollback
       ELSE [raised |-> "AttributeError"] @@ rollback

\* db_writer() from where it stands to its next suspension: it takes the
\* queued messages in order (queue.get() suspends only on an empty queue),
\* keeps ROUND and SUMMARY infos, and on CAL_END runs do_persist().
DbWriterStep ==
    /\ UNCHANGED nonCalVars
    /\ dbPc \in {"start", "woken"}
    /\ LET e == FirstCalEnd(db_queue)
           n == IF e = 0 THEN Len(db_queue) ELSE e
           got == SubSeq(db_queue, 1, n)
       IN /\ db_queue' = SubSeq(db_queue, n + 1, Len(db_queue))
          /\ dequeued' = dequeued \o [j \in DOMAIN got |-> got[j].type]
          /\ temp_round_info' =
                temp_round_info \o SelectSeq(got, LAMBDA m : m.type = "ROUND")
          /\ IF e = 0
             THEN /\ dbPc' = "waiting"
                  /\ UNCHANGED <<commits, sample_t, samples_rounds_t,
                   photometer_t, db_summary_t>>
             ELSE LET summ == SelectSeq(got, LAMBDA m : m.type = "SUMMARY")
                      res == do_persist(summ[Len(summ)])
                  IN /\ dbPc' = IF res.raised = "none" THEN "done" ELSE "failed"
                     /\ commits' = commits + res.committed
                     /\ sample_t' = sample_t \cup res.samples
                     /\ samples_rounds_t' = samples_rounds_t \cup res.links
                     /\ photometer_t' = res.photometers
                     /\ db_summary_t' = db_summary_t \cup res.summaries
    /\ UNCHANGED <<cfgVars, statVars, alive, produced, queue, ring, taken, fillPc,
                   prodPc, is_calibrated, calPc, calErr, returned, events, readings>>

Next ==
    \/ \E r \in Roles : AdapterPut(r)
    \/ \E r \in Roles : AdapterFail(r)
    \/ CalibrateStart
    \/ \E r \in Roles : FillStep(r)
    \/ PrefillDone
    \/ \E r \in Roles : ProducerStep(r)
    \/ StatisticsStep
    \/ CalibrateResume
    \/ Cancel
    \/ DbWriterStep

\* ------------------------------------------------------------------------
\* Batch controller (lib/controller/batch/batch.py)
\* ------------------------------------------------------------------------
\* Rows of batch_t: begin_tstamp is the primary key; end_tstamp and
\* calibrations are NULL until the batch is closed.
BatchRow(b, e, n) == [begin_tstamp |-> b, end_tstamp |-> e, email_sent |-> FALSE,
                      calibrations |-> n]

\* Controller._is_open: count of rows with end_tstamp NULL > 0
IsOpen(rows) == Cardinality({b \in rows : b.end_tstamp = NULL}) > 0

\* Faulty variant of AssertClosed: the check never raises.
AssertClosedNever(rows) == "ok"

\* Controller._assert_closed
AssertClosed(rows) == IF IsOpen(rows) THEN "RuntimeError" ELSE "ok"

\* Controller._assert_open
AssertOpen(rows) == IF ~IsOpen(rows) THEN "RuntimeError" ELSE "ok"

\* Faulty variant of CountSessions: only the summaries with upd_flag set count.
CountSessionsUpdated(t0, t1) ==
    Cardinality({x \in summary_sessions : t0 <= x /\ x <= t1 /\ summary_upd[x]})

\* SELECT count(session) FROM summary_v WHERE session BETWEEN t0 AND t1
\* (summary_v holds the TEST summaries, one per session)
CountSessions(t0, t1) == Cardinality({x \in summary_sessions : t0 <= x /\ x <= t1})

BatchFrozen ==
    /\ batch_t = {}
    /\ summary_sessions = {}
    /\ summary_upd = <<>>
    /\ orphans = {}
    /\ clock = 0
    /\ lastOp = [op |-> "none", outcome |-> "none", result |-> <<>>]

\* An empty batch_t, the summaries already stored, the clock at its origin
BatchInit ==
    /\ batch_t = {}
    /\ summary_sessions \in SUBSET (0..MaxClock)
    /\ summary_upd \in [summary_sessions -> BOOLEAN]
    /\ orphans = {}
    /\ clock = 0
    /\ lastOp = [op |-> "none", outcome |-> "none", result |-> <<>>]

\* A second of wall-clock time passes
Tick ==
    /\ UNCHANGED nonBatchVars
    /\ clock < MaxClock
    /\ clock' = clock + 1
    /\ UNCHANGED <<batch_t, summary_sessions, summary_upd, orphans, lastOp>>

\* Faulty variant of BatchOpen: the insert is committed before the state check.
BatchOpenNoRollback ==
    /\ UNCHANGED nonBatchVars
    /\ LET outcome == IF \E b \in batch_t : b.begin_tstamp = clock
                      THEN "IntegrityError"
                      ELSE AssertClosed(batch_t)
       IN /\ batch_t' = IF outcome = "IntegrityError"
                        THEN batch_t
                        ELSE batch_t \cup {BatchRow(clock, NULL, NULL)}
          /\ lastOp' = [op |-> "open", outcome |-> outcome,
                        result |-> IF outcome = "ok" THEN <<clock>> ELSE <<>>]
    /\ UNCHANGED <<summary_sessions, summary_upd, orphans, clock>>

\* Controller.open: one transaction; _assert_closed, then the insert, which
\* the primary key refuses when a row with the same begin_tstamp exists.
\* An exception rolls the transaction back and reaches the caller.
BatchOpen ==
    /\ UNCHANGED nonBatchVars
    /\ LET outcome == IF AssertClosed(batch_t) # "ok" THEN AssertClosed(batch_t)
                      ELSE IF \E b \in batch_t : b.begin_tstamp = clock
                      THEN "IntegrityError"
                      ELSE "ok"
       IN /\ batch_t' = IF outcome = "ok"
                        THEN batch_t \cup {BatchRow(clock, NULL, NULL)}
                        ELSE batch_t
          /\ lastOp' = [op |-> "open", outcome |-> outcome,
                        result |-> IF outcome = "ok" THEN <<clock>> ELSE <<>>]
    /\ UNCHANGED <<summary_sessions, summary_upd, orphans, clock>>

\* Controller.close: one transaction; _assert_open, _latest (one_or_none on the
\* rows with end_tstamp NULL), the count of sessions in [begin, end], the update.
BatchClose ==
    /\ UNCHANGED nonBatchVars
    /\ LET open == {b \in batch_t : b.end_tstamp = NULL}
           outcome == IF AssertOpen(batch_t) # "ok" THEN AssertOpen(batch_t)
                      ELSE IF Cardinality(open) > 1 THEN "MultipleResultsFound"
                      ELSE "ok"
       IN IF outcome = "ok"
          THEN LET batch == CHOOSE b \in open : TRUE
                   t0 == batch.begin_tstamp
                   t1 == clock
                   N == CountSessions(t0, t1)
               IN /\ batch_t' = (batch_t \ {batch}) \cup {BatchRow(t0, t1, N)}
                  /\ lastOp' = [op |-> "close", outcome |-> "ok", result |-> <<t0, t1, N>>]
          ELSE /\ batch_t' = batch_t
               /\ lastOp' = [op |-> "close", outcome |-> outcome, result |-> <<>>]
    /\ UNCHANGED <<summary_sessions, summary_upd, orphans, clock>>

\* Faulty variant of BatchPurge: every closed batch is deleted, whatever its
\* number of calibrations.
BatchPurgeAllClosed ==
    /\ UNCHANGED nonBatchVars
    /\ LET gone == {b \in batch_t : b.end_tstamp # NULL}
       IN /\ batch_t' = batch_t \ gone
          /\ lastOp' = [op |-> "purge", outcome |-> "ok", result |-> <<Cardinality(gone)>>]
    /\ UNCHANGED <<summary_sessions, summary_upd, orphans, clock>>

\* Controller.purge: DELETE FROM batch_t WHERE calibrations = 0 AND end_tstamp
\* IS NOT NULL; returns the number of rows deleted.
BatchPurge ==
    /\ UNCHANGED nonBatchVars
    /\ LET gone == {b \in batch_t : b.calibrations = 0 /\ b.end_tstamp # NULL}
       IN /\ batch_t' = batch_t \ gone
          /\ lastOp' = [op |-> "purge", outcome |-> "ok", result |-> <<Cardinality(gone)>>]
    /\ UNCHANGED <<summary_sessions, summary_upd, orphans, clock>>

\* Faulty variant of ClosedIntervals: the open batch counts too, up to now.
IntervalsWithOpen(rows) ==
    {<<b.begin_tstamp, IF b.end_tstamp = NULL THEN clock ELSE b.end_tstamp>> : b \in rows}

\* SELECT begin_tstamp, end_tstamp FROM batch_t WHERE end_tstamp IS NOT NULL
ClosedIntervals(rows) ==
    {<<b.begin_tstamp, b.end_tstamp>> : b \in {x \in rows : x.end_tstamp # NULL}}

\* Controller.orphan: all the sessions of summary_v, minus those BETWEEN the
\* begin and the end of a closed batch.  It only reads.
BatchOrphan ==
    /\ UNCHANGED nonBatchVars
    /\ LET batches == ClosedIntervals(batch_t)
           all_summaries == summary_sessions
           in_batches == UNION {{x \in summary_sessions : t[1] <= x /\ x <= t[2]} :
                                  t \in batches}
       IN orphans' = all_summaries \ in_batches
    /\ lastOp' = [op |-> "orphan", outcome |-> "ok", result |-> <<>>]
    /\ UNCHANGED <<batch_t, summary_sessions, summary_upd, clock>>

\* Concurrent calls of Controller.open(), each in its own database session.
\* A call suspends at `await self._assert_closed(session)` and at the commit
\* that ends `async with session.begin()`; the SELECT of _is_open reads the
\* committed rows and holds no lock once it has returned.

\* Line 71: open() is called and takes begin_tstamp from the clock
CoCall(c) ==
    /\ co_pc[c] = "idle"
    /\ co_pc' = [co_pc EXCEPT ![c] = "called"]
    /\ co_begin' = [co_begin EXCEPT ![c] = clock]
    /\ UNCHANGED batchVars
    /\ UNCHANGED nonCoBatchVars

\* Line 74: _assert_closed on the rows committed so far; RuntimeError ends the call
CoAssertClosed(c) ==
    /\ co_pc[c] = "called"
    /\ co_pc' = [co_pc EXCEPT ![c] = IF AssertClosed(batch_t) = "ok" THEN "checked"
                                                                     ELSE "failed"]
    /\ UNCHANGED co_begin
    /\ UNCHANGED batchVars
    /\ UNCHANGED nonCoBatchVars

\* Lines 75-78: the insert and the commit; the primary key refuses a row whose
\* begin_tstamp is already stored (IntegrityError, rolled back)
CoInsert(c) ==
    /\ co_pc[c] = "checked"
    /\ IF \E b \in batch_t : b.begin_tstamp = co_begin[c]
       THEN /\ co_pc' = [co_pc EXCEPT ![c] = "failed"]
            /\ UNCHANGED batch_t
       ELSE /\ co_pc' = [co_pc EXCEPT ![c] = "done"]
            /\ batch_t' = batch_t \cup {BatchRow(co_begin[c], NULL, NULL)}
    /\ UNCHANGED co_begin
    /\ UNCHANGED <<summary_sessions, summary_upd, orphans, clock, lastOp>>
    /\ UNCHANGED nonCoBatchVars

\* Line 79 or the exception: the call is over, the caller may call again
CoReturn(c) ==
    /\ co_pc[c] \in {"done", "failed"}
    /\ co_pc' = [co_pc EXCEPT ![c] = "idle"]
    /\ co_begin' = [co_begin EXCEPT ![c] = NULL]
    /\ UNCHANGED batchVars
    /\ UNCHANGED nonCoBatchVars

\* ------------------------------------------------------------------------
\* Specifications
\* ------------------------------------------------------------------------
\* The calibration, its adapters and its persistence task
Init == CalInit /\ RingFrozen /\ BatchFrozen /\ UtilFrozen
Spec == Init /\ [][Next]_vars

\* A stand-alone ring buffer under a sequence of append() calls
RingSpecInit == CalFrozen /\ RingInit /\ BatchFrozen /\ UtilFrozen
RingNext == RbAppend
RingSpec == RingSpecInit /\ [][RingNext]_vars

\* The batch controller under sequences of open, close and purge
BatchSpecInit == CalFrozen /\ RingFrozen /\ BatchInit /\ UtilFrozen
BatchNext ==
    \/ Tick
    \/ BatchOpen
    \/ BatchClose
    \/ BatchPurge
    \/ BatchOrphan
BatchSpec == BatchSpecInit /\ [][BatchNext]_vars

\* Calls of best()
BestSpecInit ==
    /\ CalFrozen /\ RingFrozen /\ BatchFrozen
    /\ BestInit /\ ResolveFrozen /\ WriteFrozen /\ WriterFrozen /\ SrFrozen /\ ExFrozen /\ CoFrozen
BestNext == BestCall
BestSpec == BestSpecInit /\ [][BestNext]_vars

\* Parameter resolution
ResolveSpecInit ==
    /\ CalFrozen /\ RingFrozen /\ BatchFrozen
    /\ BestFrozen /\ ResolveInit /\ WriteFrozen /\ WriterFrozen /\ SrFrozen /\ ExFrozen /\ CoFrozen
ResolveNext ==
    \/ ReaderInit
    \/ ControllerInit
    \/ CalibratorInit
ResolveSpec == ResolveSpecInit /\ [][ResolveNext]_vars

\* RingBuffer.statistics() on rings of every content up to MaxStatLen messages
SrSpecInit ==
    /\ CalFrozen /\ RingFrozen /\ BatchFrozen
    /\ BestFrozen /\ ResolveFrozen /\ WriteFrozen /\ WriterFrozen /\ SrInit /\ ExFrozen /\ CoFrozen
SrNext == SrStatistics
SrSpec == SrSpecInit /\ [][SrNext]_vars

\* export_summaries on every row of summary_v over ExValues
ExSpecInit ==
    /\ CalFrozen /\ RingFrozen /\ BatchFrozen
    /\ BestFrozen /\ ResolveFrozen /\ WriteFrozen /\ WriterFrozen /\ SrFrozen /\ ExInit /\ CoFrozen
ExNext == ExportSummaries
ExSpec == ExSpecInit /\ [][ExNext]_vars

\* Two callers of open() whose calls interleave, while time passes and
\* batches are closed
CoSpecInit ==
    /\ CalFrozen /\ RingFrozen /\ BatchFrozen
    /\ BestFrozen /\ ResolveFrozen /\ WriteFrozen /\ WriterFrozen /\ SrFrozen /\ ExFrozen /\ CoFrozen
CoNext ==
    \/ Tick
    \/ BatchClose
    \/ \E c \in Callers : CoCall(c)
    \/ \E c \in Callers : CoAssertClosed(c)
    \/ \E c \in Callers : CoInsert(c)
    \/ \E c \in Callers : CoReturn(c)
CoSpec == CoSpecInit /\ [][CoNext]_vars

\* Write-back of the zero point, by the persistent calibrator and by the Writer
WriteSpecInit ==
    /\ CalFrozen /\ RingFrozen /\ BatchFrozen
    /\ BestFrozen /\ ResolveFrozen /\ WriteInit /\ WriterInit /\ SrFrozen /\ ExFrozen /\ CoFrozen
WriteNext ==
    \/ PersistentWriteZp
    \/ NotUpdated
    \/ CliUpdateZp
WriteSpec == WriteSpecInit /\ [][WriteNext]_vars

\* ------------------------------------------------------------------------
\* Properties
\* ------------------------------------------------------------------------
EventTypes == [j \in DOMAIN events |-> events[j].type]
QueuedTypes == [j \in DOMAIN db_queue |-> db_queue[j].type]
Repeat(x, n) == [j \in 1..n |-> x]

\* The events of a complete calibration of n rounds
FullRun(n) == <<"CAL_START">> \o Repeat("ROUND", n) \o <<"SUMMARY", "CAL_END">>

\* calibrate() has returned or raised
Terminated == calPc \in {"done", "failed"}

\* Nothing went wrong around the calibration: both adapters kept delivering
\* and every round had valid statistics for both roles
Healthy == (\A r \in Roles : alive[r]) /\ nullRounds = {}

\* C1: a calibration that nothing disturbs completes successfully, and a
\* calibration that completes successfully has emitted exactly nrounds ROUND
\* events, then exactly one SUMMARY, then exactly one CAL_END.
C1_SuccessfulRunEvents ==
    /\ (Terminated /\ Healthy) => calPc = "done"
    /\ calPc = "done" => EventTypes = FullRun(nrounds)

\* C2: no ROUND event is emitted and no producer task is started before both
\* rings hold `capacity` messages; a prefill waits for nothing but its own
\* queue: it is blocked only while that queue is empty.
C2_RoundsAfterBothPrefills ==
    /\ ((\E j \in DOMAIN events : events[j].type = "ROUND")
          \/ (\E r \in Roles : prodPc[r] # "none")
          \/ statPc # "none")
       => \A r \in Roles : RingLen(ring[r]) = capacity
    /\ \A r \in Roles :
          (calPc = "prefill" /\ queue[r] # <<>> /\ RingLen(ring[r]) < capacity)
             => fillPc[r] \in {"start", "woken"}

\* C2 witness: rounds have begun on rings of more than one message, both full,
\* with the producers started.
C2_Witness ==
    /\ capacity > 1
    /\ \E j \in DOMAIN events : events[j].type = "ROUND"
    /\ \A r \in Roles : prodPc[r] # "none" /\ RingLen(ring[r]) = capacity

\* A task of the calibration can take a step
TaskStep ==
    \/ \E r \in Roles : FillStep(r) \/ ProducerStep(r)
    \/ PrefillDone
    \/ StatisticsStep
    \/ CalibrateResume
    \/ DbWriterStep

\* The calibration is at rest, unfinished, on the queue of role r: calibrate()
\* has neither returned nor raised, the consumer of r waits on the empty
\* queue, and no task of the calibration can move
StuckOn(r) ==
    /\ calPc \in {"prefill", "rounds"}
    /\ queue[r] = <<>>
    /\ fillPc[r] = "waiting" \/ prodPc[r] = "waiting"
    /\ ~ENABLED TaskStep

\* C3: when an adapter fails during the prefill or the rounds, the calibration
\* is aborted with the error: it does not come to rest, unfinished, waiting
\* for the dead adapter; and no SUMMARY, no CAL_END and no commit follow.
C3_AdapterFailureAborts ==
    \A r \in Roles :
       ~alive[r] =>
          /\ ~StuckOn(r)
          /\ \A j \in DOMAIN events : events[j].type \notin {"SUMMARY", "CAL_END"}
          /\ commits = 0

\* C4: a round whose statistics are null for a role is still emitted, as a
\* ROUND event with a null zero point, and does not end the calibration.
C4_NullRoundStillEmitted ==
    \A i \in nullRounds :
       /\ \E j \in DOMAIN events :
             /\ events[j].type = "ROUND"
             /\ events[j].current = i
             /\ events[j].zero_point = NULL
       /\ statPc # "raised"

\* C5: the persistence task takes the messages in the order they were
\* enqueued, commits only on CAL_END, and a successful calibration has
\* exactly one commit, made after its ROUND and SUMMARY messages were taken.
C5_FifoSingleCommit ==
    /\ dequeued \o QueuedTypes = EventTypes
    /\ commits > 0 => dequeued[Len(dequeued)] = "CAL_END"
    /\ (Terminated /\ Healthy) => (commits = 1 /\ dequeued = FullRun(nrounds))

\* C7: once the calibration task is cancelled, no producer is left running,
\* the persistence task is cancelled too, and nothing was committed.
C7_CancelStopsAllTasks ==
    calPc = "cancelled" =>
       /\ \A r \in Roles : prodPc[r] \in {"none", "done", "cancelled"}
       /\ \A r \in Roles : fillPc[r] \in {"none", "done", "cancelled"}
       /\ dbPc = "cancelled"
       /\ commits = 0

\* C8: after n append() calls on a ring of capacity c, the ring holds exactly
\* the last min(n, c) appended items, in append order; so its length is
\* min(n, c), never above c, and an append on a full ring drops the oldest.
C8_RingKeepsLastItems ==
    /\ RingLen(rb) = Min(Len(rbHist), rbCap)
    /\ rb = LastN(rbHist, Min(Len(rbHist), rbCap))

\* C8 witness: a ring of capacity >= 2 that has been appended past its capacity.
C8_Witness ==
    /\ rbCap >= 2
    /\ Len(rbHist) > rbCap + 1
    /\ rb # SubSeq(rbHist, 1, rbCap)

\* C9: for each role the ring holds exactly the last min(k, capacity) of the k
\* messages taken from that role's queue, which are the first k messages the
\* role's adapter produced, in that order; none is lost, repeated, reordered
\* or put in the other ring, also after the producer has taken over.
C9_RingFollowsQueueOrder ==
    \A r \in Roles :
       LET k == Len(taken[r])
       IN /\ taken[r] = [j \in 1..k |-> <<r, j>>]
          /\ k + Len(queue[r]) = produced[r]
          /\ Idents(ring[r]) = LastN(taken[r], Min(k, capacity))

\* C9 witness: a producer has appended, past the capacity, to the ring its
\* fill_buffer had filled.
C9_Witness ==
    \E r \in Roles :
       /\ prodPc[r] \in {"waiting", "done"}
       /\ Len(taken[r]) > capacity
       /\ readings[r] = capacity

\* C10: at most one row of batch_t has end_tstamp NULL.
C10_AtMostOneOpenBatch ==
    Cardinality({b \in batch_t : b.end_tstamp = NULL}) <= 1

\* C10 witness: an open() has just failed on an open batch, next to a closed one.
C10_Witness ==
    /\ lastOp.op = "open"
    /\ lastOp.outcome = "RuntimeError"
    /\ \E b \in batch_t : b.end_tstamp = NULL
    /\ \E b \in batch_t : b.end_tstamp # NULL

\* C11: open() on an open batch and close() with no open batch raise the
\* batch state error (RuntimeError) to the caller and leave batch_t as it was.
C11_BatchStateErrors ==
    [][/\ (BatchOpen /\ IsOpen(batch_t)) =>
            (lastOp'.outcome = "RuntimeError" /\ lastOp'.result = <<>> /\ batch_t' = batch_t)
       /\ (BatchClose /\ ~IsOpen(batch_t)) =>
            (lastOp'.outcome = "RuntimeError" /\ lastOp'.result = <<>> /\ batch_t' = batch_t)]_vars

\* C11 witness: a close() has just failed on a table that holds batches, all
\* of them closed.
C11_Witness ==
    /\ lastOp.op = "close"
    /\ lastOp.outcome = "RuntimeError"
    /\ batch_t # {}
    /\ \A b \in batch_t : b.end_tstamp # NULL

InClosedBatch ==
    {x \in summary_sessions :
        \E b \in batch_t :
           b.end_tstamp # NULL /\ b.begin_tstamp <= x /\ x <= b.end_tstamp}

\* C13: orphan() returns the summary sessions that lie in no closed batch's
\* [begin, end], those lying only in the open batch included, and changes
\* neither batch_t nor the summaries.
C13_OrphanIsComplement ==
    [][BatchOrphan =>
         /\ orphans' = summary_sessions \ InClosedBatch
         /\ batch_t' = batch_t
         /\ summary_sessions' = summary_sessions
         /\ summary_upd' = summary_upd]_vars

\* C13 witness: orphan() has returned a session that lies in the open batch,
\* and left out a session that lies in a closed one.
C13_Witness ==
    /\ lastOp.op = "orphan"
    /\ \E x \in orphans : \E b \in batch_t :
          b.end_tstamp = NULL /\ b.begin_tstamp <= x /\ x <= clock
    /\ InClosedBatch # {}
    /\ orphans = summary_sessions \ InClosedBatch

\* C14: a calibration that nothing disturbs returns a zero point, which is the
\* final_zero_point of its SUMMARY event, itself best_zero_point + zp_offset
\* with no rounding.
C14_ReturnedIsBestPlusOffset ==
    (Terminated /\ Healthy) =>
       /\ returned # NULL
       /\ \E j \in DOMAIN events :
             /\ events[j].type = "SUMMARY"
             /\ returned = events[j].final_zero_point
             /\ returned = events[j].best_zero_point + zp_offset

\* The values of highest multiplicity in the argument of best()
TopValues ==
    {x \in Range(best_seq) :
        \A y \in Range(best_seq) : Count(best_seq, y) <= Count(best_seq, x)}

\* C15: best(seq) returns a (method, value) pair: (MODE, the unique value of
\* highest multiplicity) when there is one, else (MEDIAN, median_low(seq)),
\* an element of seq.
C15_BestIsTaggedPair ==
    best_result.py # "none" =>
       /\ best_result.py = "tuple"
       /\ IF Cardinality(TopValues) = 1
          THEN best_result.value = <<"MODE", CHOOSE x \in TopValues : TRUE>>
          ELSE /\ best_result.value = <<"MEDIAN", median_low(best_seq)>>
               /\ median_low(best_seq) \in Range(best_seq)

\* C16: the effective value of a parameter is its explicit argument when the
\* argument is not None, a falsy argument included, and the parsed config
\* value when the argument is None.
C16_ArgumentWinsIffNotNone ==
    res_out # NULL =>
       res_out = IF res_arg # NULL THEN res_arg ELSE res_db

\* The summaries of the session of the given role
SessionRows(role) == {r \in summary_t : r.session = MeasSession /\ r.role = role}

\* C17: when the write-back has failed (read-back mismatch, timeout, transport
\* error) write_zp() has raised nothing and the TEST summary of the session
\* has upd_flag false and a comment holding the message.
C17_FailedWriteIsRecorded ==
    (wz_pc = "written" /\ wz_dev # "verified") =>
       /\ wz_result.kind = "returned"
       /\ \A r \in SessionRows("TEST") : r.upd_flag = 0 /\ r.comment # "None"

\* C18: after write_zp() the REF summary of the session has upd_flag false,
\* the TEST summary has upd_flag true exactly when the zero point was written
\* and read back equal, and the summaries of other sessions are unchanged.
C18_UpdFlagMeansVerified ==
    wz_pc = "written" =>
       /\ \A r \in SessionRows("REF") : r.upd_flag = 0
       /\ \A r \in SessionRows("TEST") : (r.upd_flag = 1) = (wz_dev = "verified")
       /\ \A r \in SessionRows("TEST") : r.upd_flag \in {0, 1}
       /\ {r \in summary_t : r.session # MeasSession}
             = {r \in summary_t0 : r.session # MeasSession}

\* C19: a call of Writer.write_zp(zp) has published exactly one WRITE_ZP event,
\* for role TEST and with the requested zero point, whose flags are: ok iff
\* the value read back equals zp, timeout iff the adapter timed out, neither
\* on a mismatch.
C19_OneWriteZpEvent ==
    ww_result.kind # "none" =>
       /\ Len(ww_events) = 1
       /\ ww_events[1].type = "WRITE_ZP"
       /\ ww_events[1].role = "TEST"
       /\ ww_events[1].zero_point = ww_zp
       /\ ww_events[1].ok = (ww_dev = "verified")
       /\ ww_events[1].timeout = (ww_dev = "timeout")
       /\ ~(ww_events[1].ok /\ ww_events[1].timeout)

\* The samples, as (role, seq), of the snapshots of a role's ring over the rounds
SnapshotUnion(role) == UNION {Range(round_rings[j][role]) : j \in DOMAIN round_rings}

\* C20: after the commit of a calibration that nothing disturbs, the samples
\* stored for each role are those of the union of the role's per-round ring
\* snapshots, each stored once: as many rows as distinct samples in that union.
C20_SamplesAreSnapshotUnion ==
    (Terminated /\ Healthy) =>
       /\ commits = 1
       /\ \A role \in Roles :
             LET stored == {x \in sample_t : x[1] = role}
             IN /\ stored = SnapshotUnion(role)
                /\ Cardinality(stored) = Cardinality(SnapshotUnion(role))

\* The batches that are closed and hold no calibration
EmptyClosed(rows) == {b \in rows : b.end_tstamp # NULL /\ b.calibrations = 0}

C28_ReadingsOnlyInPrefill ==
    \A r \in Roles :
       /\ readings[r] <= capacity
       /\ calPc \in {"idle", "prefill"} =>
             /\ readings[r] = RingLen(ring[r])
             /\ readings[r] = Len(taken[r])
       /\ fillPc[r] = "done" => readings[r] = capacity
       /\ Len(RoundEvents) > 0 => readings[r] = capacity
       /\ prodPc[r] # "none" => readings[r] = capacity

\* C28 witness: a ROUND event has been published and a producer has appended
\* past the samples of the prefill.
C28_Witness ==
    /\ Len(RoundEvents) > 0
    /\ \A r \in Roles : readings[r] = capacity
    /\ \E r \in Roles : Len(taken[r]) > readings[r]

C22_StatisticsOfSimpleRings ==
    sr_result.error # "not_called" =>
       LET f == frequencies(sr_buffer)
       IN /\ (Len(f) >= 2 /\ \A i \in DOMAIN f : f[i] = f[1]) =>
                /\ sr_result.error = "none"
                /\ sr_result.freq = f[1]
                /\ sr_result.stdev = 0
          /\ (Len(f) = 2 /\ f[1] # f[2]) =>
                /\ sr_central = "MEDIAN" =>
                      (sr_result.error = "none" /\ sr_result.freq = Min(f[1], f[2]))
                /\ sr_central = "MEAN" =>
                      (sr_result.error = "none" /\ 2 * sr_result.freq = f[1] + f[2])
                /\ sr_central = "MODE" => sr_result.error = "StatisticsError"
                /\ sr_result.error = "none" =>
                      2 * sr_result.stdev = (f[1] - f[2]) * (f[1] - f[2])

\* The ROUND messages put on db_queue so far: those db_writer() has taken, then
\* those still queued
RoundMessages == temp_round_info \o SelectSeq(db_queue, LAMBDA m : m.type = "ROUND")

\* C23: the ROUND message enqueued for round i carries, for each role, the
\* samples the role's ring held when the statistics of round i were computed
\* (round_rings[i]); being a copy, it is not changed by what the producers
\* append to the rings afterwards.
C23_RoundMessageCarriesSnapshot ==
    \A j \in DOMAIN RoundMessages :
       LET m == RoundMessages[j]
       IN /\ "samples" \in DOMAIN m
          /\ m.samples = round_rings[m.current]

\* The samples stored for a role whose tstamp lies between the tstamps of the
\* first and the last sample of the role's snapshot of round i.  An adapter
\* stamps its messages in the order of their sequence numbers.
InWindow(role, i) ==
    LET snap == round_rings[i][role]
    IN {x \in sample_t : x[1] = role /\ snap[1][2] <= x[2] /\ x[2] <= snap[Len(snap)][2]}

\* C21: after the commit of a calibration that nothing disturbs, a stored
\* sample is linked to a stored round exactly when both have the same role and
\* the sample's tstamp lies in the round's window [begin_tstamp, end_tstamp];
\* so the links are as many as the samples inside the windows, summed over the
\* rounds.
C21_LinksAreWindowMembership ==
    (Terminated /\ Healthy) =>
       /\ commits = 1
       /\ samples_rounds_t =
             UNION {{<<role, i, x[2]>> : x \in InWindow(role, i)} :
                       role \in Roles, i \in DOMAIN round_rings}
       /\ Cardinality(samples_rounds_t) =
             SumSeq([i \in DOMAIN round_rings |->
                       Cardinality(InWindow("REF", i)) + Cardinality(InWindow("TEST", i))])

\* C27: once calibrate() has failed in the rounds phase, no producer task of
\* the calibration is still running: none is runnable or waiting on its queue,
\* so none can append to a ring any more.
C27_AbortTearsDownProducers ==
    (calPc = "failed" /\ statPc # "none") =>
       \A r \in Roles : prodPc[r] \in {"none", "done", "cancelled"}

\* The central frequency of a role's ring is computed but is not above the
\* role's freq_offset: math.log10 has no value
DomainError(r) ==
    /\ RingStatistics(ring[r], central).error = "none"
    /\ RingStatistics(ring[r], central).freq - freq_offset[r] <= 0

\* C29: when statistics() computes a round in which freq - freq_offset <= 0
\* for a role, round_statistics returns freq, stdev and mag all null for that
\* role, and the round is published as a ROUND event that carries these null
\* statistics and a null zero point.
C29_NullStatisticsOnDomainError ==
    [][ (Len(round_rings') > Len(round_rings) /\ \E r \in Roles : DomainError(r)) =>
           /\ \A r \in Roles :
                 DomainError(r) =>
                    round_statistics(ring[r], central, freq_offset[r])
                       = [freq |-> NULL, stdev |-> NULL, mag |-> NULL]
           /\ Len(RoundEvents') = Len(RoundEvents) + 1
           /\ RoundEvents'[Len(RoundEvents')].zero_point = NULL
           /\ \A r \in Roles :
                 DomainError(r) =>
                    RoundEvents'[Len(RoundEvents')].stats[r]
                       = [freq |-> NULL, stdev |-> NULL, mag |-> NULL] ]_vars

\* Number of messages a role's producer has appended since statistics() set
\* is_calibrated, which it does in the step that computes the last round
AppendedSinceFlag(r) ==
    LET snap == round_rings[nrounds][r]
    IN Len(taken[r]) - snap[Len(snap)][2]

\* C26: once is_calibrated is set after the last round, a producer appends at
\* most the one message it was already waiting for and then exits; and when
\* both producers have exited, with adapters that kept delivering, calibrate()
\* returns: it does not end with an exception.
C26_ProducersExitAndCalibrateReturns ==
    is_calibrated =>
       /\ \A r \in Roles : AppendedSinceFlag(r) <= 1
       /\ \A r \in Roles : AppendedSinceFlag(r) = 1 => prodPc[r] = "done"
       /\ ((\A r \in Roles : prodPc[r] = "done" /\ alive[r]) /\ Terminated) => calPc = "done"

\* C36: from the end of the prefill on, whatever becomes of calibrate(), each
\* role's ring holds exactly `capacity` messages, and the statistics of every
\* round were computed over exactly `capacity` samples per role.
C36_RingsStayFull ==
    \A r \in Roles :
       /\ calPc \in {"rounds", "wait_db", "done", "failed"} => RingLen(ring[r]) = capacity
       /\ \A i \in DOMAIN round_rings : Len(round_rings[i][r]) = capacity

\* C36 witness: two rounds were computed and a producer has appended past the
\* samples of the prefill in between.
C36_Witness ==
    /\ Len(round_rings) = 2
    /\ capacity = 2
    /\ \E r \in Roles : round_rings[1][r] # round_rings[2][r]

\* C35: the step in which statistics() computes a round is one section without
\* suspension: it leaves both rings as they are, and the statistics of the
\* ROUND event it publishes, the ring lengths and the first and last samples
\* a synchronous subscriber reads are those of the same ring contents, for REF
\* and for TEST.
C35_RoundIsOneSection ==
    [][ Len(round_rings') > Len(round_rings) =>
           LET n == Len(round_rings')
           IN /\ ring' = ring
              /\ taken' = taken
              /\ \A r \in Roles :
                    /\ round_rings'[n][r] = Idents(ring'[r])
                    /\ Len(round_rings'[n][r]) = RingLen(ring[r])
              /\ Len(RoundEvents') > Len(RoundEvents) =>
                    \A r \in Roles :
                       RoundEvents'[Len(RoundEvents')].stats[r]
                          = round_statistics(ring'[r], central, freq_offset[r]) ]_vars

\* C35 witness: the second ROUND was published over rings that a producer had
\* changed since the first, with a message waiting in a queue.
C35_Witness ==
    /\ Len(RoundEvents) = 2
    /\ \E r \in Roles : round_rings[1][r] # round_rings[2][r]
    /\ \E r \in Roles : queue[r] # <<>> /\ prodPc[r] = "woken"

\* C31: after the commit of a calibration that nothing disturbs, photometer_t
\* holds at most one row per (name, mac), and each role's photometer has its
\* row there: the row it had before, unchanged, or a new row with the model,
\* sensor, firmware and freq_offset of the photometer info.
C31_OnePhotometerRowPerNameMac ==
    (Terminated /\ Healthy) =>
       /\ commits = 1
       /\ \A p, q \in photometer_t : (p.name = q.name /\ p.mac = q.mac) => p = q
       /\ \A role \in Roles :
             \E p \in photometer_t :
                /\ p.name = phot_info(role).name
                /\ p.mac = phot_info(role).mac
                /\ p.model = phot_info(role).model
                /\ p.sensor = phot_info(role).sensor
                /\ p.firmware = phot_info(role).firmware
                /\ p.freq_offset = phot_info(role).freq_offset

\* The SUMMARY event of the calibration
SummaryEvent == CHOOSE e \in Range(events) : e.type = "SUMMARY"

\* C32: the commit of a calibration that nothing disturbs stores exactly two
\* Summary rows for the session, one per role, each tied to its role's
\* photometer: REF with zp_offset 0, prev_zp = zero_point = zp_abs and no
\* zero_point_method; TEST with the configured offset, the zero point the
\* device held before as prev_zp, the best zero point and its method; each
\* with its own role's best freq, freq method and mag.
C32_TwoSummaryRowsPerCommit ==
    (Terminated /\ Healthy) =>
       /\ commits = 1
       /\ Cardinality(db_summary_t) = 2
       /\ \A role \in Roles :
             \E s \in db_summary_t :
                /\ s.session = MeasSession
                /\ s.role = role
                /\ s.photometer = <<phot_info(role).name, phot_info(role).mac>>
                /\ s.zp_offset = (IF role = "TEST" THEN zp_offset ELSE 0)
                /\ s.prev_zp = (IF role = "TEST" THEN phot_info("TEST").zp ELSE ZpAbs)
                /\ s.zero_point =
                      (IF role = "TEST" THEN SummaryEvent.best_zero_point ELSE ZpAbs)
                /\ s.zero_point_method =
                      (IF role = "TEST" THEN SummaryEvent.best_zero_point_method ELSE "None")
                /\ s.freq = (IF role = "TEST" THEN SummaryEvent.best_test_freq
                                              ELSE SummaryEvent.best_ref_freq)
                /\ s.freq_method = (IF role = "TEST" THEN SummaryEvent.best_test_freq_method
                                                     ELSE SummaryEvent.best_ref_freq_method)
                /\ s.mag = (IF role = "TEST" THEN SummaryEvent.best_test_mag
                                             ELSE SummaryEvent.best_ref_mag)

\* The field of summary_v a column of the header names
HeaderField(h) == IF h = "offset" THEN "zp_offset" ELSE h

\* C34: in the summary export file every data row lists its values in the
\* order of the header row: the value in position k is the value of the
\* field named in position k of the header, for each of the 23 columns.
C34_RowsFollowHeaderOrder ==
    Len(ex_file) > 0 =>
       /\ Len(ex_file[1]) = 23
       /\ Len(ex_file[2]) = 23
       /\ \A k \in 1..23 : ex_file[2][k] = ex_view[HeaderField(ex_file[1][k])]

\* C38: two open() calls that interleave at their suspension points cannot
\* both succeed: never do two rows of batch_t with end_tstamp NULL exist at
\* the same time, and never have both callers inserted a batch that is open.
C38_ConcurrentOpensExclude ==
    /\ \A b1, b2 \in batch_t : (b1.end_tstamp = NULL /\ b2.end_tstamp = NULL) => b1 = b2
    /\ ~(\A c \in Callers :
            /\ co_pc[c] = "done"
            /\ BatchRow(co_begin[c], NULL, NULL) \in batch_t)

\* C33: the sequences statistics() hands over for the SUMMARY event have
\* length nrounds and their i-th elements are exactly the zero point and the
\* REF and TEST freq of the ROUND event with current = i; the SUMMARY event of
\* a calibration that nothing disturbs carries these sequences, and its
\* best_zero_point, best_ref_freq and best_test_freq are elements of them.
C33_SummarySequencesAreRoundValues ==
    /\ statPc = "returned" =>
          /\ Len(zero_points) = nrounds
          /\ \A i \in 1..nrounds :
                /\ RoundEvents[i].current = i
                /\ zero_points[i] = RoundEvents[i].zero_point
    /\ (Terminated /\ Healthy) =>
          /\ \E e \in Range(events) : e.type = "SUMMARY"
          /\ Len(SummaryEvent.zero_point_seq) = nrounds
          /\ Len(SummaryEvent.ref_freq_seq) = nrounds
          /\ Len(SummaryEvent.test_freq_seq) = nrounds
          /\ \A i \in 1..nrounds :
                /\ SummaryEvent.zero_point_seq[i] = RoundEvents[i].zero_point
                /\ SummaryEvent.ref_freq_seq[i] = RoundEvents[i].stats["REF"].freq
                /\ SummaryEvent.test_freq_seq[i] = RoundEvents[i].stats["TEST"].freq
          /\ SummaryEvent.best_zero_point \in Range(SummaryEvent.zero_point_seq)
          /\ SummaryEvent.best_ref_freq \in Range(SummaryEvent.ref_freq_seq)
          /\ SummaryEvent.best_test_freq \in Range(SummaryEvent.test_freq_seq)

====
